---- MODULE Spec2Model ----
(***************************************************************************)
(* A model of base8x.py: the Base8xCodec class (alphabet validation, the   *)
(* chunking generator, the 4-byte <-> 5-symbol conversion, encode and      *)
(* decode) and the module-level generator _chunkby.                        *)
(*                                                                         *)
(* Representation.  A character or byte is its code point (0..255); a str  *)
(* is a sequence of code points, so ord() and chr() are the identity.      *)
(* Python integers are unbounded and TLC's are 32-bit, so a Python integer *)
(* that may pass 2^31 is kept as a pair <<hi, lo>> of value                *)
(* hi * 2^16 + lo with 0 <= lo < 2^16 ("wide").                            *)
(*                                                                         *)
(* A call of encode or decode is a generator that join() pulls group by    *)
(* group; threads interleave between two pulls.  The code writes no        *)
(* attribute of self and no global after construction, so a finer          *)
(* interleaving shows nothing more.                                        *)
(***************************************************************************)
EXTENDS Integers, Sequences, FiniteSets, TLC

VARIABLES codec, calls, chunker

vars == <<codec, calls, chunker>>

-----------------------------------------------------------------------------
(* Bounds of the model.                                                    *)

\* longest byte string handed to encode
MaxLen == 5
\* longest text handed to decode
MaxTextLen == 6
\* longest sequence handed to _chunkby on its own
MaxChunkLen == 5
\* largest stride handed to _chunkby on its own
MaxStride == 4

-----------------------------------------------------------------------------
(* Sequences.                                                              *)

Range(s) == {s[i] : i \in 1..Len(s)}

Min(a, b) == IF a <= b THEN a ELSE b

Max(a, b) == IF a >= b THEN a ELSE b

\* xrange(lo, hi) as a list
XRange(lo, hi) == [i \in 1..Max(hi - lo, 0) |-> lo + i - 1]

\* [item] * n
Repeat(item, n) == [i \in 1..Max(n, 0) |-> item]

\* s[:n]
SliceTo(s, n) ==
    IF n >= 0 THEN SubSeq(s, 1, Min(n, Len(s)))
    ELSE SubSeq(s, 1, Max(Len(s) + n, 0))

\* all sequences over S of length at most n
RECURSIVE SeqsUpTo(_, _)
SeqsUpTo(S, n) ==
    IF n = 0 THEN {<<>>}
    ELSE LET shorter == SeqsUpTo(S, n - 1)
         IN  shorter \cup {Append(s, x) : s \in {t \in shorter : Len(t) = n - 1}, x \in S}

-----------------------------------------------------------------------------
(* Unbounded integers as pairs <<hi, lo>>.                                 *)

Limb == 256 * 256

Wide(hi, lo) == <<hi + (lo \div Limb), lo % Limb>>

WZero == <<0, 0>>

\* a + b
WAdd(a, b) == Wide(a[1] + b[1], a[2] + b[2])

\* pos * offset for 0 <= pos < 2^7 and 0 <= offset < 2^27
WMul(pos, offset) == Wide(pos * (offset \div Limb), pos * (offset % Limb))

\* a > b
WGreater(a, b) == a[1] > b[1] \/ (a[1] = b[1] /\ a[2] > b[2])

\* Long division of the low limb, a hexadecimal digit at a time: rem is the
\* running remainder (< d), quot the quotient digits so far, k the digits left.
RECURSIVE WDivLow(_, _, _, _, _)
WDivLow(rem, lo, d, quot, k) ==
    IF k = 0 THEN quot
    ELSE LET digit == (lo \div (IF k = 4 THEN 4096 ELSE IF k = 3 THEN 256
                                ELSE IF k = 2 THEN 16 ELSE 1)) % 16
             cur   == rem * 16 + digit
         IN  WDivLow(cur % d, lo, d, quot * 16 + (cur \div d), k - 1)

\* (num // d) % m for 1 <= d < 2^27 and 1 <= m < 2^7
WDivMod(num, d, m) ==
    LET qhi == num[1] \div d
        qlo == WDivLow(num[1] % d, num[2], d, 0, 4)
    IN  ((qhi % m) * Limb + qlo) % m

-----------------------------------------------------------------------------
(* Module constants.                                                       *)

\* a variant of _MAXVAL: 2 ** 33 - 1
MAXVAL_33_bits == <<131071, 65535>>

\* _MAXVAL = 2 ** 32 - 1
MAXVAL == <<65535, 65535>>

\* the printable range test of _validate_alphabet
MinPrintable == 32

MaxPrintable == 126

MinAlphabetSize == 85

MaxAlphabetSize == 95

\* the messages of the four ValueError the module raises
InvalidParameter == "ValueError: Stride parameter too small"

InvalidAlphabet == "ValueError: Invalid input alphabet"

IllegalCharacter == "ValueError: Tried decoding sequence containing illegal character"

IllegalSequence == "ValueError: Tried decoding illegal sequence"

-----------------------------------------------------------------------------
(* _chunkby: a generator.  A generator object is its arguments and the     *)
(* number of items it has consumed; between two yields tmp is [] and count *)
(* is 0.  padding is <<>> for None and <<p>> for the padding item p.       *)

\* The for loop of _chunkby from item pos + 1 on, up to the next yield or to
\* the end of the generator.
RECURSIVE ChunkbyLoop(_, _, _, _, _, _)
ChunkbyLoop(seq, pos, stride, padding, tmp, count) ==
    IF pos < Len(seq)
    THEN LET tmp1   == Append(tmp, seq[pos + 1])
             count1 == count + 1
         IN  IF count1 = stride
             THEN [kind |-> "yield", chunk |-> tmp1, npadding |-> 0, pos |-> pos + 1]
             ELSE ChunkbyLoop(seq, pos + 1, stride, padding, tmp1, count1)
    ELSE IF count # 0
         THEN LET npadding == stride - count
              IN  [kind |-> "yield",
                   chunk |-> IF padding # <<>>
                             THEN tmp \o Repeat(padding[1], npadding)
                             ELSE tmp,
                   npadding |-> npadding, pos |-> Len(seq) + 1]
         ELSE [kind |-> "stop", chunk |-> <<>>, npadding |-> 0, pos |-> Len(seq) + 1]

\* a variant of _chunkby that reports no padding count when it is given no
\* padding item
ChunkbyNext_count_only_if_padded(seq, pos, stride, padding) ==
    LET n == IF pos = 0 /\ stride <= 0
             THEN [kind |-> InvalidParameter, chunk |-> <<>>, npadding |-> 0, pos |-> 0]
             ELSE IF pos > Len(seq)
                  THEN [kind |-> "stop", chunk |-> <<>>, npadding |-> 0, pos |-> pos]
                  ELSE ChunkbyLoop(seq, pos, stride, padding, <<>>, 0)
    IN  IF padding = <<>> THEN [n EXCEPT !.npadding = 0] ELSE n

\* next() of the generator _chunkby(seq, stride, padding) that has consumed pos
\* items (pos = Len(seq) + 1: it has seen the end of seq)
ChunkbyNext(seq, pos, stride, padding) ==
    IF pos = 0 /\ stride <= 0
    THEN [kind |-> InvalidParameter, chunk |-> <<>>, npadding |-> 0, pos |-> 0]
    ELSE IF pos > Len(seq)
         THEN [kind |-> "stop", chunk |-> <<>>, npadding |-> 0, pos |-> pos]
         ELSE ChunkbyLoop(seq, pos, stride, padding, <<>>, 0)

-----------------------------------------------------------------------------
(* _validate_alphabet and Base8xCodec.__init__.                            *)

\* ord(item) is in the printable range
IsPrintable(item) == MinPrintable <= item /\ item <= MaxPrintable

\* a variant of the loop's test without the seen-set
Rejected_unprintable_only(seq, k) == ~IsPrintable(seq[k])

\* The test of the for loop of _validate_alphabet at item k: seen holds the
\* items before it, all of them accepted when the loop gets that far.
Rejected(seq, k) ==
    LET seen == {seq[j] : j \in 1..(k - 1)}
    IN  seq[k] \in seen \/ ~IsPrintable(seq[k])

\* _validate_alphabet; None is [valid |-> FALSE].  The loop returns None at
\* the first item it rejects; with none rejected, accept is the whole of seq.
validate_alphabet(seq) ==
    LET accept == seq
    IN  IF \E k \in 1..Len(seq) : Rejected(seq, k)
        THEN [valid |-> FALSE, alphabet |-> <<>>]
        ELSE IF ~(MinAlphabetSize <= Len(accept) /\ Len(accept) <= MaxAlphabetSize)
             THEN [valid |-> FALSE, alphabet |-> <<>>]
             ELSE [valid |-> TRUE, alphabet |-> accept]

\* radix ** p, for radix < 2^7 and p <= 4
RECURSIVE Power(_, _)
Power(radix, p) == IF p = 0 THEN 1 ELSE radix * Power(radix, p - 1)

\* no instance: before the constructor has run, or after it has raised
NoCodec(status, given) ==
    [status |-> status, given |-> given, alphabet |-> <<>>, radix |-> 0,
     ordmap |-> <<>>, powersofradix |-> <<>>, powersenum |-> <<>>]

\* Base8xCodec(alphabet)
NewCodec(given) ==
    LET validated == validate_alphabet(given)
        alphabet  == validated.alphabet
        radix     == Len(alphabet)
        powers    == [k \in 1..5 |-> Power(radix, 5 - k)]
    IN  IF ~validated.valid
        THEN NoCodec(InvalidAlphabet, given)
        ELSE [status |-> "constructed", given |-> given, alphabet |-> alphabet,
              radix |-> radix,
              ordmap |-> [c \in Range(alphabet) |->
                            (CHOOSE i \in 1..Len(alphabet) : alphabet[i] = c) - 1],
              powersofradix |-> powers,
              powersenum |-> [k \in 1..5 |-> <<k - 1, powers[k]>>]]

-----------------------------------------------------------------------------
(* The conversions of one group.  A conversion that may raise returns a    *)
(* record whose status is "ok" or the error raised.                        *)

NoError == [seq |-> <<>>, char |-> 0, ord |-> 0, pos |-> 0, val |-> WZero]

\* a variant of _get_num_by_seq_enc: struct.unpack("<1I", seq)[0]
get_num_by_seq_enc_little_endian(seq) ==
    [status |-> "ok", val |-> Wide(seq[4] * 256 + seq[3], seq[2] * 256 + seq[1]),
     err |-> NoError]

\* struct.unpack(">1I", seq)[0]
get_num_by_seq_enc(seq) ==
    [status |-> "ok", val |-> Wide(seq[1] * 256 + seq[2], seq[3] * 256 + seq[4]),
     err |-> NoError]

\* Base8xCodec._encode_quartet
encode_quartet(self, num) ==
    [k \in 1..Len(self.powersofradix) |->
        self.alphabet[WDivMod(num, self.powersofradix[k], self.radix) + 1]]

\* the for loop of _get_num_by_seq_dec from entry k of _powersenum on
RECURSIVE DecLoop(_, _, _, _)
DecLoop(self, seq, k, val) ==
    IF k > Len(self.powersenum)
    THEN IF WGreater(val, MAXVAL)
         THEN [status |-> IllegalSequence, val |-> val,
               err |-> [NoError EXCEPT !.seq = seq, !.val = val]]
         ELSE [status |-> "ok", val |-> val, err |-> NoError]
    ELSE LET i      == self.powersenum[k][1]
             offset == self.powersenum[k][2]
             char   == seq[i + 1]
         IN  IF char \notin DOMAIN self.ordmap
             THEN [status |-> IllegalCharacter, val |-> val,
                   err |-> [NoError EXCEPT !.seq = seq, !.char = char,
                                           !.ord = char, !.pos = i]]
             ELSE DecLoop(self, seq, k + 1, WAdd(val, WMul(self.ordmap[char], offset)))

\* a variant of _get_num_by_seq_dec that wraps the value around 2^32 instead of
\* raising
get_num_by_seq_dec_wrapping(self, seq) ==
    LET r == DecLoop(self, seq, 1, WZero)
    IN  IF r.status = IllegalSequence
        THEN [status |-> "ok", val |-> <<r.val[1] % Limb, r.val[2]>>, err |-> NoError]
        ELSE r

\* a variant of _get_num_by_seq_dec that counts positions from 1
get_num_by_seq_dec_one_based(self, seq) ==
    LET r == DecLoop(self, seq, 1, WZero)
    IN  IF r.status = IllegalCharacter
        THEN [r EXCEPT !.err.pos = @ + 1]
        ELSE r

\* Base8xCodec._get_num_by_seq_dec
get_num_by_seq_dec(self, seq) == DecLoop(self, seq, 1, WZero)

\* a variant of _decode_quintet: struct.pack("<1I", num)
decode_quintet_little_endian(num) ==
    <<num[2] % 256, num[2] \div 256, num[1] % 256, num[1] \div 256>>

\* struct.pack(">1I", num)
decode_quintet(num) ==
    <<num[1] \div 256, num[1] % 256, num[2] \div 256, num[2] % 256>>

-----------------------------------------------------------------------------
(* _codec_generator_factory and the two generators made with it.           *)

\* "".join(parts)
RECURSIVE Join(_)
Join(parts) == IF parts = <<>> THEN <<>> ELSE Head(parts) \o Join(Tail(parts))

\* a call of one of the conversions that the factory is handed, a bound
\* method of self or a static method, named by its name
Apply(self, method, arg) ==
    CASE method = "_get_num_by_seq_enc" -> get_num_by_seq_enc(arg)
      [] method = "_get_num_by_seq_dec" -> get_num_by_seq_dec(self, arg)
      [] method = "_encode_quartet"     -> [status |-> "ok", val |-> encode_quartet(self, arg), err |-> NoError]
      [] method = "_decode_quintet"     -> [status |-> "ok", val |-> decode_quintet(arg), err |-> NoError]

\* next() of codec_gen(inputseq) whose _chunkby has consumed pos items; bound
\* holds the factory's arguments
codec_gen(self, bound, inputseq, pos) ==
    LET chunked == ChunkbyNext(inputseq, pos, bound.inchunksize, <<bound.padchar>>)
        val     == Apply(self, bound.ingroup2num, Join(<<chunked.chunk>>))
    IN  IF chunked.kind = "stop"
        THEN [kind |-> "stop", group |-> <<>>, pos |-> chunked.pos, err |-> NoError]
        ELSE IF val.status # "ok"
             THEN [kind |-> val.status, group |-> <<>>, pos |-> chunked.pos,
                   err |-> val.err]
             ELSE [kind |-> "yield",
                   group |-> SliceTo(Apply(self, bound.num2outgroup, val.val).val,
                                     bound.outchunksize - chunked.npadding),
                   pos |-> chunked.pos, err |-> NoError]

\* a variant of _make_encode_gen that pads with "0" instead of "\x00"
make_encode_gen_pad_digit_zero(self, inputseq, pos) ==
    codec_gen(self,
              [inchunksize |-> 4, outchunksize |-> 5, padchar |-> 48,
               ingroup2num |-> "_get_num_by_seq_enc", num2outgroup |-> "_encode_quartet"],
              inputseq, pos)

\* next() of self._make_encode_gen()(inputseq)
make_encode_gen(self, inputseq, pos) ==
    codec_gen(self,
              [inchunksize |-> 4, outchunksize |-> 5, padchar |-> 0,
               ingroup2num |-> "_get_num_by_seq_enc", num2outgroup |-> "_encode_quartet"],
              inputseq, pos)

\* a variant of _make_decode_gen that pads with the alphabet's first symbol
make_decode_gen_pad_first(self, inputseq, pos) ==
    codec_gen(self,
              [inchunksize |-> 5, outchunksize |-> 4, padchar |-> self.alphabet[1],
               ingroup2num |-> "_get_num_by_seq_dec", num2outgroup |-> "_decode_quintet"],
              inputseq, pos)

\* next() of self._make_decode_gen()(inputseq)
make_decode_gen(self, inputseq, pos) ==
    codec_gen(self,
              [inchunksize |-> 5, outchunksize |-> 4,
               padchar |-> self.alphabet[Len(self.alphabet)],
               ingroup2num |-> "_get_num_by_seq_dec", num2outgroup |-> "_decode_quintet"],
              inputseq, pos)

\* "".join(gen): the generator run to its end by one caller, undisturbed
RECURSIVE JoinGen(_, _, _, _, _)
JoinGen(self, op, inputseq, pos, acc) ==
    LET n == IF op = "encode" THEN make_encode_gen(self, inputseq, pos)
             ELSE make_decode_gen(self, inputseq, pos)
    IN  IF n.kind = "yield" THEN JoinGen(self, op, inputseq, n.pos, acc \o n.group)
        ELSE IF n.kind = "stop"
             THEN [status |-> "returned", result |-> acc, err |-> NoError]
             ELSE [status |-> n.kind, result |-> <<>>, err |-> n.err]

\* Base8xCodec.encode
encode(self, text) == JoinGen(self, "encode", text, 0, <<>>)

\* Base8xCodec.decode
decode(self, text) == JoinGen(self, "decode", text, 0, <<>>)

-----------------------------------------------------------------------------
(* The callers.  Each thread makes calls on the one shared instance; a     *)
(* call in progress is a frame: its argument, the generator it created and *)
(* the groups join() has pulled from it so far.                            *)

Threads == {"t1", "t2"}

Idle ==
    [op |-> "idle", status |-> "idle", input |-> <<>>, pos |-> 0, parts |-> <<>>,
     result |-> <<>>, err |-> NoError, orig |-> <<>>, chained |-> FALSE]

\* the frame of a call just made
NewFrame(op, text, orig, chained) ==
    [Idle EXCEPT !.op = op, !.status = "running", !.input = text, !.orig = orig,
                 !.chained = chained]

\* a variant in which the calls in progress of one kind share one generator,
\* kept by the instance: it stands where the furthest of them has got
GenPos_shared_generator(frames, t) ==
    LET same == {u \in DOMAIN frames :
                    frames[u].status = "running" /\ frames[u].op = frames[t].op}
    IN  CHOOSE p \in {frames[u].pos : u \in same} :
            \A u \in same : frames[u].pos <= p

\* where the generator of thread t's call stands: the generator object is
\* local to the call that created it
GenPos(frames, t) == frames[t].pos

\* one pull of join() on the generator of frame f, standing at pos
Pulled(self, f, pos) ==
    LET n == IF f.op = "encode" THEN make_encode_gen(self, f.input, pos)
             ELSE make_decode_gen(self, f.input, pos)
    IN  IF n.kind = "yield"
        THEN [f EXCEPT !.pos = n.pos, !.parts = Append(f.parts, n.group)]
        ELSE IF n.kind = "stop"
             THEN [f EXCEPT !.pos = n.pos, !.status = "returned",
                            !.result = Join(f.parts), !.parts = <<>>]
             ELSE [f EXCEPT !.pos = n.pos, !.status = n.kind, !.err = n.err,
                            !.parts = <<>>]

Finished(f) == f.status \in {"returned", IllegalCharacter, IllegalSequence}

-----------------------------------------------------------------------------
(* The inputs of the model.                                                *)

\* z85codec's alphabet
Z85 ==
    XRange(48, 58) \o XRange(97, 123) \o XRange(65, 91) \o
    <<46, 45, 58, 43, 61, 94, 33, 47, 42, 63, 38, 60, 62, 40, 41, 91, 93, 123, 125,
      64, 37, 36, 35>>

\* adobe85codec's alphabet in the module's doctest
Adobe85 == XRange(33, 33 + 85)

\* w92codec's alphabet
W92 ==
    XRange(48, 58) \o XRange(97, 123) \o XRange(65, 91) \o
    <<96, 44, 126, 124, 32, 95, 59, 46, 45, 58, 43, 61, 94, 33, 47, 42, 63, 38, 60,
      62, 40, 41, 91, 93, 123, 125, 64, 37, 36, 35>>

\* the alphabet a of _validate_alphabet's doctest
DocA == XRange(35, 35 + 85)

\* the alphabets handed to the constructor: the four above, the first n code
\* points from 32 on for n = 84..96 (84: too short; 96: ends with 127), and
\* alphabets with an unprintable or a repeated character
Alphabets ==
    {Z85, Adobe85, W92, DocA}
    \cup {XRange(32, 32 + n) : n \in (MinAlphabetSize - 1)..(MaxAlphabetSize + 1)}
    \cup {SliceTo(DocA, 0 - 1), DocA \o <<138>>, <<97>> \o DocA,
          XRange(31, 31 + 85), XRange(43, 43 + 85), W92 \o <<48>>,
          <<48>> \o SliceTo(Z85, 0 - 1), XRange(32, 127) \o <<32>>,
          SubSeq(Z85, 1, 40) \o <<10>> \o SubSeq(Z85, 41, 85)}

\* the bytes encode's arguments are made of
ByteSamples == {0, 134, 255}

\* the bytes of the ZeroMQ reference vector
HelloWorldBytes == <<134, 79, 210, 111, 181, 89, 247, 91>>

ByteInputs == SeqsUpTo(ByteSamples, MaxLen) \cup {HelloWorldBytes}

\* "HelloWorld", "s8W-!", "s8W-$"
HelloWorld == <<72, 101, 108, 108, 111, 87, 111, 114, 108, 100>>

S8Wbang == <<115, 56, 87, 45, 33>>

S8Wdollar == <<115, 56, 87, 45, 36>>

\* the shapes of decode's arguments: 1 stands for the alphabet's first symbol,
\* 2 for its last, 3 for a character outside it
TextShapes == SeqsUpTo({1, 2, 3}, MaxTextLen)

\* the texts handed to decode: the shapes filled in, and some chosen texts
TextInputs(self) ==
    LET first == self.alphabet[1]
        last  == self.alphabet[Len(self.alphabet)]
        sym   == <<first, last, 127>>
    IN  {[i \in 1..Len(shape) |-> sym[shape[i]]] : shape \in TextShapes}
        \cup {HelloWorld, S8Wbang, S8Wdollar, S8Wdollar \o <<32>>,
              <<10, 127>>, <<127, 10>>, <<first, 10, last, 127>>,
              <<last, first, first, first, 127, 10>>}

-----------------------------------------------------------------------------
(* The state machine.                                                      *)

NoChunker ==
    [status |-> "idle", seq |-> <<>>, stride |-> 0, padding |-> <<>>, pos |-> 0,
     emitted |-> <<>>]

Init ==
    /\ codec = NoCodec("none", <<>>)
    /\ calls = [t \in Threads |-> Idle]
    /\ chunker = NoChunker

\* Base8xCodec(alphabet)
Construct(alphabet) ==
    /\ codec.status = "none"
    /\ codec' = NewCodec(alphabet)
    /\ UNCHANGED <<calls, chunker>>

\* thread t calls codec.encode(text)
CallEncode(t) ==
    /\ codec.status = "constructed"
    /\ calls[t].status = "idle"
    /\ \E text \in ByteInputs :
          calls' = [calls EXCEPT ![t] = NewFrame("encode", text, <<>>, FALSE)]
    /\ UNCHANGED <<codec, chunker>>

\* thread t calls codec.decode(text)
CallDecode(t) ==
    /\ codec.status = "constructed"
    /\ calls[t].status = "idle"
    /\ \E text \in TextInputs(codec) :
          calls' = [calls EXCEPT ![t] = NewFrame("decode", text, <<>>, FALSE)]
    /\ UNCHANGED <<codec, chunker>>

\* join() in thread t's call pulls the next group, or ends the call
Pull(t) ==
    /\ calls[t].status = "running"
    /\ calls' = [calls EXCEPT ![t] = Pulled(codec, calls[t], GenPos(calls, t))]
    /\ UNCHANGED <<codec, chunker>>

\* thread t calls codec.decode(codec.encode(x)): encode has returned
DecodeEncoded(t) ==
    /\ calls[t].op = "encode" /\ calls[t].status = "returned" /\ ~calls[t].chained
    /\ calls' = [calls EXCEPT ![t] = NewFrame("decode", calls[t].result,
                                              calls[t].input, TRUE)]
    /\ UNCHANGED <<codec, chunker>>

\* thread t calls codec.encode(codec.decode(x)): decode has returned
EncodeDecoded(t) ==
    /\ calls[t].op = "decode" /\ calls[t].status = "returned" /\ ~calls[t].chained
    /\ calls' = [calls EXCEPT ![t] = NewFrame("encode", calls[t].result,
                                              calls[t].input, TRUE)]
    /\ UNCHANGED <<codec, chunker>>

\* thread t drops the outcome of its call and is free for another
Forget(t) ==
    /\ Finished(calls[t])
    /\ calls' = [calls EXCEPT ![t] = Idle]
    /\ UNCHANGED <<codec, chunker>>

\* one caller, all the inputs
Next ==
    \/ \E alphabet \in Alphabets : Construct(alphabet)
    \/ CallEncode("t1")
    \/ CallDecode("t1")
    \/ Pull("t1")
    \/ DecodeEncoded("t1")
    \/ EncodeDecoded("t1")

Spec == Init /\ [][Next]_vars

-----------------------------------------------------------------------------
(* Two threads on one instance.                                            *)

\* the alphabets of the shared instance
SharedAlphabets == {Adobe85, W92, XRange(32, 32 + MaxAlphabetSize), SliceTo(DocA, 0 - 1)}

\* arguments of the concurrent calls to encode
SharedBytes == {<<>>, <<255, 255, 255, 255, 134>>, <<0, 134, 255, 0, 255, 255, 134>>}

\* arguments of the concurrent calls to decode: texts that decode, one with an
\* illegal sequence in its second group, one with an illegal character in it
SharedTexts(self) ==
    LET first == self.alphabet[1]
        last  == self.alphabet[Len(self.alphabet)]
    IN  {<<first, last, last>>,
         <<first, last, first, last, first, last, first>>,
         <<first, first, first, first, first, last, last>>,
         <<first, last, first, last, last, last, 127, first>>}

\* thread t calls codec.encode(text), text one of SharedBytes
SharedEncode(t) ==
    /\ codec.status = "constructed"
    /\ calls[t].status = "idle"
    /\ \E text \in SharedBytes :
          calls' = [calls EXCEPT ![t] = NewFrame("encode", text, <<>>, FALSE)]
    /\ UNCHANGED <<codec, chunker>>

\* thread t calls codec.decode(text), text one of SharedTexts
SharedDecode(t) ==
    /\ codec.status = "constructed"
    /\ calls[t].status = "idle"
    /\ \E text \in SharedTexts(codec) :
          calls' = [calls EXCEPT ![t] = NewFrame("decode", text, <<>>, FALSE)]
    /\ UNCHANGED <<codec, chunker>>

\* the threads' steps interleave as the scheduler pleases
NextShared ==
    \/ \E alphabet \in SharedAlphabets : Construct(alphabet)
    \/ \E t \in Threads : SharedEncode(t)
    \/ \E t \in Threads : SharedDecode(t)
    \/ \E t \in Threads : Pull(t)
    \/ \E t \in Threads : Forget(t)

SharedSpec == Init /\ [][NextShared]_vars

-----------------------------------------------------------------------------
(* _chunkby on its own.                                                    *)

\* the items of the sequences chunked, and the padding item
ChunkItems == {97, 98}

ChunkPaddings == {<<>>, <<88>>}

ChunkSeqs == SeqsUpTo(ChunkItems, MaxChunkLen)

\* the strides: some too small, and 1..MaxStride
Strides == (0 - 1)..MaxStride

\* gen = _chunkby(seq, stride, padding): no line of the body runs yet
ChunkbyCall(seq, stride, padding) ==
    /\ chunker.status = "idle"
    /\ chunker' = [NoChunker EXCEPT !.status = "running", !.seq = seq,
                                    !.stride = stride, !.padding = padding]
    /\ UNCHANGED <<codec, calls>>

\* next(gen)
ChunkbyPull ==
    /\ chunker.status = "running"
    /\ LET n == ChunkbyNext(chunker.seq, chunker.pos, chunker.stride, chunker.padding)
       IN  chunker' =
             IF n.kind = "yield"
             THEN [chunker EXCEPT !.pos = n.pos,
                                  !.emitted = Append(@, <<n.chunk, n.npadding>>)]
             ELSE IF n.kind = "stop"
                  THEN [chunker EXCEPT !.pos = n.pos, !.status = "stopped"]
                  ELSE [chunker EXCEPT !.status = n.kind]
    /\ UNCHANGED <<codec, calls>>

NextChunk ==
    \/ \E seq \in ChunkSeqs, stride \in Strides, padding \in ChunkPaddings :
          ChunkbyCall(seq, stride, padding)
    \/ ChunkbyPull

ChunkSpec == Init /\ [][NextChunk]_vars

-----------------------------------------------------------------------------
(* The properties.  They state values positionally and by multiplication,  *)
(* where the code divides: a group of five symbols with digits d0..d4 has  *)
(* the value (((d0 * r + d1) * r + d2) * r + d3) * r + d4.                 *)

\* the digit a symbol of the alphabet stands for
DigitOf(alphabet, c) == CHOOSE d \in 0..(Len(alphabet) - 1) : alphabet[d + 1] = c

\* w * r + d
Horner(w, r, d) == <<w[1] * r + ((w[2] * r + d) \div 65536), (w[2] * r + d) % 65536>>

\* the value of a group of five symbols of the alphabet
ValueOf(alphabet, g) ==
    LET r    == Len(alphabet)
        d(i) == DigitOf(alphabet, g[i])
    IN  Horner(Horner(Horner(Horner(Horner(<<0, 0>>, r, d(1)), r, d(2)), r, d(3)),
               r, d(4)), r, d(5))

\* b0 * 2^24 + b1 * 2^16 + b2 * 2^8 + b3
BigEndian(b) == <<b[1] * 256 + b[2], b[3] * 256 + b[4]>>

\* the four big-endian bytes of a value below 2^32
BytesOf(w) == <<w[1] \div 256, w[1] % 256, w[2] \div 256, w[2] % 256>>

\* the k-th group of `size` items of s, the last one filled up with pad
GroupOf(s, k, size, pad) ==
    [i \in 1..size |-> IF size * (k - 1) + i <= Len(s) THEN s[size * (k - 1) + i] ELSE pad]

NumGroups(s, size) == (Len(s) + size - 1) \div size

LastSymbol == codec.alphabet[Len(codec.alphabet)]

InAlphabet(text) == \A i \in 1..Len(text) : text[i] \in Range(codec.alphabet)

\* C1: decode(encode(x)) returns x for every byte string x and every valid
\* codec: encode returns, decode of its result raises nothing (the re-padded
\* last group stays within 2^32 - 1) and returns exactly x.
C1_RoundTrip ==
    \A t \in Threads :
        LET f == calls[t]
        IN  /\ (f.op = "encode" /\ Finished(f)) => f.status = "returned"
            /\ (f.op = "decode" /\ f.chained /\ Finished(f)) =>
                  (f.status = "returned" /\ f.result = f.orig)

C1_Witness ==
    \E t \in Threads :
        /\ calls[t].op = "decode" /\ calls[t].chained /\ calls[t].status = "returned"
        /\ codec.radix = 95
        /\ calls[t].orig = <<255, 255, 255, 255, 255>>
        /\ calls[t].result = calls[t].orig

\* C2: of a full 4-byte group with big-endian value V, encode emits the five
\* symbols whose digits, most significant first, are the radix-r numeral of V;
\* under Z85 the ZeroMQ vector gives "HelloWorld", under the alphabet 33..117
\* ff ff ff ff gives "s8W-!".
C2_FullGroup ==
    \A t \in Threads :
        LET f == calls[t]
        IN  (f.op = "encode" /\ f.status = "returned") =>
              /\ \A k \in 1..(Len(f.input) \div 4) :
                    LET g == SubSeq(f.result, 5 * k - 4, 5 * k)
                    IN  /\ Len(f.result) >= 5 * k
                        /\ \A i \in 1..5 : g[i] \in Range(codec.alphabet)
                        /\ ValueOf(codec.alphabet, g)
                             = BigEndian(SubSeq(f.input, 4 * k - 3, 4 * k))
              /\ (codec.alphabet = Z85 /\ f.input = HelloWorldBytes)
                    => f.result = HelloWorld
              /\ (codec.alphabet = Adobe85 /\ f.input = <<255, 255, 255, 255>>)
                    => f.result = S8Wbang

C2_Witness ==
    \E t \in Threads :
        /\ calls[t].op = "encode" /\ calls[t].status = "returned"
        /\ codec.alphabet = Z85
        /\ calls[t].input = HelloWorldBytes
        /\ calls[t].result = HelloWorld

\* C3: encode of n bytes returns 5 * (n div 4) characters when 4 divides n and
\* 5 * (n div 4) + (n mod 4) + 1 otherwise; the trailing (n mod 4) + 1 characters
\* are the first symbols of the encoding of the remainder padded with zero
\* bytes; empty input gives empty text.
C3_LengthAndTail ==
    \A t \in Threads :
        LET f   == calls[t]
            n   == Len(f.input)
            rem == n % 4
            pad == GroupOf(f.input, NumGroups(f.input, 4), 4, 0)
        IN  (f.op = "encode" /\ f.status = "returned") =>
              /\ Len(f.result) = 5 * (n \div 4) + (IF rem = 0 THEN 0 ELSE rem + 1)
              /\ rem # 0 =>
                    SubSeq(f.result, 5 * (n \div 4) + 1, Len(f.result))
                      = SubSeq(encode_quartet(codec, BigEndian(pad)), 1, rem + 1)
              /\ n = 0 => f.result = <<>>

C3_Witness ==
    \E t \in Threads :
        /\ calls[t].op = "encode" /\ calls[t].status = "returned"
        /\ Len(calls[t].input) = 5 /\ Len(calls[t].result) = 7
        /\ calls[t].input[5] = 134

\* C4: the constructor succeeds exactly when the alphabet has only characters
\* of code points 32..126, no repeated character and 85 to 95 characters, and
\* then keeps the characters in the given order; otherwise it raises
\* InvalidAlphabet.
C4_AlphabetAcceptance ==
    LET a  == codec.given
        ok == /\ \A i \in 1..Len(a) : 32 <= a[i] /\ a[i] <= 126
              /\ Cardinality(Range(a)) = Len(a)
              /\ 85 <= Len(a) /\ Len(a) <= 95
    IN  codec.status # "none" =>
          /\ codec.status = "constructed" <=> ok
          /\ ok => (codec.alphabet = a /\ codec.radix = Len(a))
          /\ ~ok => codec.status = InvalidAlphabet

\* one repeated character, 92 distinct ones: rejected
C4_Witness ==
    /\ codec.status = InvalidAlphabet
    /\ Len(codec.given) = 93
    /\ Cardinality(Range(codec.given)) = 92
    /\ \A i \in 1..Len(codec.given) : 32 <= codec.given[i] /\ codec.given[i] <= 126

\* the groups of text, the last one padded, whose value exceeds 2^32 - 1
Overflowing(text) ==
    {k \in 1..NumGroups(text, 5) :
        WGreater(ValueOf(codec.alphabet, GroupOf(text, k, 5, LastSymbol)), MAXVAL)}

\* the bytes decode owes for text: four per group, the last group's cut
RECURSIVE Decoded(_, _)
Decoded(text, k) ==
    IF k = 0 THEN <<>>
    ELSE Decoded(text, k - 1)
         \o SubSeq(BytesOf(ValueOf(codec.alphabet, GroupOf(text, k, 5, LastSymbol))),
                   1, IF 5 * k <= Len(text) THEN 4 ELSE 4 - (5 * k - Len(text)))

\* C5: on a text over the alphabet, decode raises IllegalSequence exactly when
\* some group of five (the last one padded with the last symbol) has a value
\* above 2^32 - 1, and the error carries the text and the value, unwrapped, of
\* the first such group; otherwise decode returns the big-endian bytes of the
\* groups' values.  In the alphabet 33..117, "s8W-$" fails with 0x100000002.
C5_IllegalSequence ==
    \A t \in Threads :
        LET f   == calls[t]
            bad == Overflowing(f.input)
            k   == CHOOSE j \in bad : \A i \in bad : j <= i
            g   == GroupOf(f.input, k, 5, LastSymbol)
        IN  (f.op = "decode" /\ Finished(f) /\ InAlphabet(f.input)) =>
              /\ f.status = IllegalSequence <=> bad # {}
              /\ bad # {} =>
                    /\ f.err.seq = g
                    /\ f.err.val = ValueOf(codec.alphabet, g)
                    /\ f.result = <<>>
              /\ bad = {} =>
                    /\ f.status = "returned"
                    /\ f.result = Decoded(f.input, NumGroups(f.input, 5))
              /\ (codec.alphabet = Adobe85 /\ f.input = S8Wdollar) =>
                    (f.status = IllegalSequence /\ f.err.val = <<65536, 2>>)

C5_Witness ==
    \E t \in Threads :
        /\ calls[t].op = "decode" /\ calls[t].status = IllegalSequence
        /\ codec.alphabet = Adobe85
        /\ calls[t].input = S8Wdollar
        /\ calls[t].err.seq = S8Wdollar
        /\ calls[t].err.val = <<65536, 2>>

\* the index of the leftmost character of text that is not in the alphabet
LeftmostAbsent(text) ==
    CHOOSE i \in 1..Len(text) :
        /\ text[i] \notin Range(codec.alphabet)
        /\ \A j \in 1..(i - 1) : text[j] \in Range(codec.alphabet)

\* the groups of text that lie wholly before index i and overflow
OverflowingBefore(text, i) ==
    {k \in 1..((i - 1) \div 5) :
        WGreater(ValueOf(codec.alphabet, SubSeq(text, 5 * k - 4, 5 * k)), MAXVAL)}

\* C6 as stated: decode of a text with a character outside the alphabet
\* raises IllegalCharacter, naming the leftmost such character, its ordinal
\* and its position within its group.
C6_AsStated ==
    \A t \in Threads :
        LET f == calls[t]
            i == LeftmostAbsent(f.input)
        IN  (f.op = "decode" /\ Finished(f) /\ ~InAlphabet(f.input)) =>
              /\ f.status = IllegalCharacter
              /\ f.err.char = f.input[i]
              /\ f.err.ord = f.input[i]
              /\ f.err.pos = (i - 1) % 5

\* C6, amended: decode of a text with a character outside the alphabet
\* fails.  It raises IllegalCharacter, naming the leftmost such character, its
\* ordinal and its position 0..4 within its group, unless a group of five that
\* lies before that character's group has a value above 2^32 - 1: then it
\* raises IllegalSequence for the first such group.
C6_IllegalCharacter ==
    \A t \in Threads :
        LET f      == calls[t]
            i      == LeftmostAbsent(f.input)
            before == OverflowingBefore(f.input, i)
            k      == CHOOSE j \in before : \A m \in before : j <= m
        IN  (f.op = "decode" /\ Finished(f) /\ ~InAlphabet(f.input)) =>
              /\ f.status \in {IllegalCharacter, IllegalSequence}
              /\ f.result = <<>>
              /\ before = {} =>
                    /\ f.status = IllegalCharacter
                    /\ f.err.char = f.input[i]
                    /\ f.err.ord = f.input[i]
                    /\ f.err.pos = (i - 1) % 5
                    /\ f.err.pos \in 0..4
                    /\ f.err.seq = GroupOf(f.input, ((i - 1) \div 5) + 1, 5, LastSymbol)
              /\ before # {} =>
                    /\ f.status = IllegalSequence
                    /\ f.err.seq = SubSeq(f.input, 5 * k - 4, 5 * k)
                    /\ f.err.val = ValueOf(codec.alphabet, f.err.seq)

\* two characters outside the alphabet, the leftmost in the second group
C6_Witness ==
    \E t \in Threads :
        /\ calls[t].op = "decode" /\ calls[t].status = IllegalCharacter
        /\ Len(calls[t].input) = 6
        /\ calls[t].input[5] = 127 /\ calls[t].input[6] = 10
        /\ calls[t].err.char = 127 /\ calls[t].err.pos = 4

\* the outcome of a call
Outcome(f) == [status |-> f.status, result |-> f.result, err |-> f.err]

\* the outcome of the same call made alone on a fresh instance
Alone(op, text) ==
    IF op = "encode" THEN encode(NewCodec(codec.given), text)
    ELSE decode(NewCodec(codec.given), text)

\* C7: calls on a shared instance, interleaved in any way and failing or not,
\* leave the instance as the constructor made it, and each call ends as the
\* same call made alone on a fresh instance would; at any point of a call,
\* what it has pulled so far is what the call made alone has at that point.
C7_Independence ==
    /\ codec.status = "constructed" => codec = NewCodec(codec.given)
    /\ \A t \in Threads :
          LET f == calls[t]
          IN  /\ Finished(f) => Outcome(f) = Alone(f.op, f.input)
              /\ f.status = "running" =>
                    JoinGen(codec, f.op, f.input, f.pos, Join(f.parts))
                      = Alone(f.op, f.input)

\* a call fails part-way through its input while another is in progress
C7_Witness ==
    /\ calls["t1"].status = "running" /\ calls["t1"].pos > 0
    /\ calls["t1"].op = "decode"
    /\ calls["t2"].status = IllegalSequence
    /\ Len(calls["t2"].input) > 5
    /\ calls["t2"].err.seq # SubSeq(calls["t2"].input, 1, 5)

\* radix^5
RadixToTheFifth ==
    LET r == codec.radix
    IN  Horner(Horner(Horner(Horner(Horner(<<0, 1>>, r, 0), r, 0), r, 0), r, 0), r, 0)

\* C8 as stated: a group above 2^32 - 1 exists for the radices 86..95 and not
\* for radix 85, so that IllegalSequence is raised only when the radix is at
\* least 86.
C8_AsStated ==
    \A t \in Threads :
        (calls[t].op = "decode" /\ calls[t].status = IllegalSequence)
            => codec.radix >= 86

\* C8, amended: radix^5 > 2^32 for every valid radix 85..95 (the fifth root of
\* 2^32 is about 84.45), so every valid codec has a group above 2^32 - 1, the
\* group of five last symbols, of value radix^5 - 1, and decode raises
\* IllegalSequence on it, radix 85 included.
C8_EveryRadix ==
    \A t \in Threads :
        LET f   == calls[t]
            top == [i \in 1..5 |-> LastSymbol]
        IN  (f.op = "decode" /\ Finished(f) /\ f.input = top) =>
              /\ codec.radix \in 85..95
              /\ f.status = IllegalSequence
              /\ f.err.val = ValueOf(codec.alphabet, top)
              /\ Horner(f.err.val, 1, 1) = RadixToTheFifth
              /\ WGreater(RadixToTheFifth, <<65536, 0>>)

C8_Witness ==
    \E t \in Threads :
        /\ calls[t].op = "decode" /\ calls[t].status = IllegalSequence
        /\ codec.radix = 85
        /\ calls[t].input = [i \in 1..5 |-> LastSymbol]

\* the chunks emitted, their padding removed, one after the other
RECURSIVE Unpadded(_)
Unpadded(emitted) ==
    IF emitted = <<>> THEN <<>>
    ELSE LET last == emitted[Len(emitted)]
         IN  Unpadded(SubSeq(emitted, 1, Len(emitted) - 1))
             \o (IF chunker.padding = <<>> THEN last[1]
                 ELSE SubSeq(last[1], 1, Len(last[1]) - last[2]))

\* C9: _chunkby over n items with stride s >= 1 yields ceil(n / s) pairs in
\* input order, all but possibly the last of s items with padCount 0; when s
\* does not divide n the last has padCount s - (n mod s) and is the n mod s
\* items left, followed by the padding when one is given; the chunks without
\* their padding make up the input; no item, no pair; a stride <= 0 raises
\* InvalidParameter.
C9_Chunker ==
    LET n  == Len(chunker.seq)
        s  == chunker.stride
        e  == chunker.emitted
        np == s - (n % s)
    IN  /\ chunker.status \in {"stopped", InvalidParameter} =>
              (chunker.status = InvalidParameter <=> s <= 0)
        /\ chunker.status = InvalidParameter => e = <<>>
        /\ chunker.status = "stopped" =>
              /\ Len(e) = (n + s - 1) \div s
              /\ \A k \in 1..(n \div s) :
                    e[k] = <<SubSeq(chunker.seq, s * (k - 1) + 1, s * k), 0>>
              /\ n % s # 0 =>
                    /\ e[Len(e)][2] = np
                    /\ e[Len(e)][1] =
                          SubSeq(chunker.seq, n - (n % s) + 1, n)
                          \o (IF chunker.padding = <<>> THEN <<>>
                              ELSE [i \in 1..np |-> chunker.padding[1]])
              /\ Unpadded(e) = chunker.seq
              /\ n = 0 => e = <<>>

\* two full chunks and a short one, no padding given
C9_Witness ==
    /\ chunker.status = "stopped"
    /\ chunker.padding = <<>>
    /\ chunker.stride = 2
    /\ Len(chunker.seq) = 5
    /\ Len(chunker.emitted) = 3
    /\ chunker.emitted[3] = <<SubSeq(chunker.seq, 5, 5), 1>>

\* C10: when decode returns on a text t of whole groups, the result has
\* 4 * len(t) / 5 bytes and encode of it returns t.
C10_CanonicalGroups ==
    \A t \in Threads :
        LET f == calls[t]
        IN  (f.op = "encode" /\ f.chained /\ Len(f.orig) % 5 = 0) =>
              /\ 5 * Len(f.input) = 4 * Len(f.orig)
              /\ Finished(f) => (f.status = "returned" /\ f.result = f.orig)

C10_Witness ==
    \E t \in Threads :
        /\ calls[t].op = "encode" /\ calls[t].chained /\ calls[t].status = "returned"
        /\ codec.radix = 92
        /\ Len(calls[t].orig) = 5
        /\ calls[t].orig[1] = codec.alphabet[1] /\ calls[t].orig[5] = LastSymbol
        /\ calls[t].result = calls[t].orig

====
